---------------------------- MODULE Spec2Model ----------------------------
(***************************************************************************)
(* State-machine model of aurora.py / script.py (brayvid/aurora-alert):    *)
(* settings load, time-zone lookup, bulletin fetch, parse_forecast and     *)
(* send_email_alert, as one sequential run of the script.                   *)
(*                                                                         *)
(* A bulletin is a sequence of lines.  A line is a record                  *)
(*   [toks, marker, issued, y, m]                                          *)
(* toks   : the result of line.strip().split()                             *)
(* marker : "NOAA Kp index breakdown" in line                              *)
(* issued : "none" when the line does not start with ":Issued:",           *)
(*          "ymd" / "mdy" when its timestamp parses with the first /       *)
(*          second strptime layout, "bad" when neither layout parses       *)
(* y, m   : year and month of the issuance timestamp (0 when none)         *)
(* A token is a record [t, v]:                                             *)
(*   "mon"   a month abbreviation, v = its month number                    *)
(*   "int"   a string of ASCII digits, v = its value                       *)
(*   "dec"   a finite decimal literal that is not all digits, v = tenths   *)
(*   "nan", "inf"  the literals float() accepts as not-a-number / infinity *)
(*   "word"  any other text                                                *)
(*   "label" a time-bucket label hh-hhUT, v = hh                           *)
(***************************************************************************)
EXTENDS Integers, Sequences, FiniteSets, TLC

VARIABLES pc, env, KP_THRESHOLD, LOCAL_TZ, now, forecast_text,
          current_year, issued_year_found, date_header_line_idx,
          forecast_dates_raw, parsed_dates, idx, line_num,
          high_kp_periods, msg, smtp, calls, log, first_parse

vars == <<pc, env, KP_THRESHOLD, LOCAL_TZ, now, forecast_text,
          current_year, issued_year_found, date_header_line_idx,
          forecast_dates_raw, parsed_dates, idx, line_num,
          high_kp_periods, msg, smtp, calls, log, first_parse>>

--------------------------------------------------------------------------
(* Tokens and lines *)

Tok(t, v) == [t |-> t, v |-> v]
Mon(m) == Tok("mon", m)
Int_(n) == Tok("int", n)
Dec(tenths) == Tok("dec", tenths)
NaN == Tok("nan", 0)
Inf == Tok("inf", 0)
Word == Tok("word", 0)
Label(hh) == Tok("label", hh)

Line(toks, marker, issued, y, m) ==
    [toks |-> toks, marker |-> marker, issued |-> issued, y |-> y, m |-> m]
TokLine(toks) == Line(toks, FALSE, "none", 0, 0)
BlankLine == TokLine(<<>>)
\* "NOAA Kp index breakdown Dec 31-Jan 02 2025" split into words
MarkerLine == Line(<<Word, Word, Word, Word>>, TRUE, "none", 0, 0)
\* ":Issued: 2024 Dec 31 2205 UTC" split into words
IssuedLine(fmt, y, m) == Line(<<Word, Word, Word, Word>>, FALSE, fmt, y, m)

--------------------------------------------------------------------------
(* datetime.date / datetime.datetime arithmetic (proleptic Gregorian)     *)

IsLeap(y) == (y % 4 = 0) /\ ((y % 100 # 0) \/ (y % 400 = 0))

DaysInMonth(y, m) ==
    IF m = 2 THEN (IF IsLeap(y) THEN 29 ELSE 28)
    ELSE IF m \in {4, 6, 9, 11} THEN 30 ELSE 31

\* date(y, m, d) raises ValueError unless this holds
ValidDate(y, m, d) == m \in 1..12 /\ d >= 1 /\ d <= DaysInMonth(y, m)

RECURSIVE DaysBeforeMonth(_, _)
DaysBeforeMonth(y, m) ==
    IF m <= 1 THEN 0 ELSE DaysBeforeMonth(y, m - 1) + DaysInMonth(y, m - 1)

DaysBeforeYear(y) ==
    LET p == y - 1 IN p * 365 + (p \div 4) - (p \div 100) + (p \div 400)

ToOrdinal(y, m, d) == DaysBeforeYear(y) + DaysBeforeMonth(y, m) + d

RECURSIVE MonthOfDay(_, _, _)
\* the month holding day-of-year n (0-based) of year y, searching from month m
MonthOfDay(y, m, n) ==
    IF n < DaysBeforeMonth(y, m + 1) THEN m ELSE MonthOfDay(y, m + 1, n)

RECURSIVE YearOfOrdinal(_, _)
\* the year holding ordinal n, searching from year y
YearOfOrdinal(y, n) ==
    IF n <= DaysBeforeYear(y + 1) THEN y ELSE YearOfOrdinal(y + 1, n)

\* date.fromordinal(n), for ordinals from 2000-01-01 on
FromOrdinal(n) ==
    LET y == YearOfOrdinal(2000, n)
        doy == n - DaysBeforeYear(y) - 1
        m == MonthOfDay(y, 1, doy)
    IN  [y |-> y, m |-> m, d |-> doy - DaysBeforeMonth(y, m) + 1]

\* An aware datetime: wall-clock fields plus its UTC offset in hours.
DateTime(y, m, d, h, off) == [y |-> y, m |-> m, d |-> d, h |-> h, off |-> off]

\* hours of wall-clock time since the ordinal origin
WallHours(dt) == ToOrdinal(dt.y, dt.m, dt.d) * 24 + dt.h

\* the absolute instant of an aware datetime, in hours
AbsHours(dt) == WallHours(dt) - dt.off

FromWallHours(w, off) ==
    LET dte == FromOrdinal(w \div 24)
    IN  DateTime(dte.y, dte.m, dte.d, w % 24, off)

AddHoursNoCarry(dt, n) == [dt EXCEPT !.h = (dt.h + n) % 24]

\* dt + timedelta(hours=n): same tzinfo, wall clock advanced by n hours
AddHours(dt, n) == FromWallHours(WallHours(dt) + n, dt.off)

\* The instant at which the zone "Shift" changes its offset: 2025-01-01T00:00Z
ShiftInstant == ToOrdinal(2025, 1, 1) * 24

TimeZones == {"UTC", "Asia/Tokyo", "Shift"}

\* ZoneInfo(tz).utcoffset at absolute instant a (hours)
UtcOffset(tz, a) ==
    CASE tz = "UTC" -> 0
      [] tz = "Asia/Tokyo" -> 9
      [] tz = "Shift" -> IF a < ShiftInstant THEN -5 ELSE -4

\* dt.astimezone(tz)
AsTimeZone(dt, tz) ==
    LET a == AbsHours(dt) IN FromWallHours(a + UtcOffset(tz, a), UtcOffset(tz, a))


--------------------------------------------------------------------------
(* Pure steps of parse_forecast *)

\* month_str_to_int succeeds (strptime(tok, "%b") does not raise)
IsMonthStr(tok) == tok.t = "mon"
month_str_to_int(tok) == tok.v

\* str.isdigit()
IsDigit(tok) == tok.t = "int"

\* the strptime pair of the issuance scan succeeds on this line
IssuedParses(line) == line.issued \in {"ymd", "mdy"}

RECURSIVE FirstIssued(_, _)
\* index of the first ":Issued:" line, from i on, whose timestamp parses; 0 if none
FirstIssued(lines, i) ==
    IF i > Len(lines) THEN 0
    ELSE IF lines[i].issued # "none" /\ IssuedParses(lines[i]) THEN i
    ELSE FirstIssued(lines, i + 1)

\* the ":Issued:" lines that raise ValueError before the scan stops
BadIssuedBefore(lines, stop) ==
    {i \in 1..Len(lines) : lines[i].issued = "bad" /\ (stop = 0 \/ i < stop)}

LookAhead == 3

RECURSIVE ScanWindowOneMore(_, _, _)
ScanWindowOneMore(lines, i, off) ==
    IF off > LookAhead + 1 THEN -1
    ELSE IF i + off > Len(lines) THEN -1
    ELSE LET parts == lines[i + off].toks IN
         IF parts = <<>> THEN ScanWindowOneMore(lines, i, off + 1)
         ELSE IF Len(parts) >= 3
              THEN (IF IsMonthStr(parts[1]) THEN i + off ELSE -1)
              ELSE -1

RECURSIVE ScanWindowSkipping(_, _, _)
ScanWindowSkipping(lines, i, off) ==
    IF off > LookAhead THEN -1
    ELSE IF i + off > Len(lines) THEN -1
    ELSE LET parts == lines[i + off].toks IN
         IF Len(parts) >= 3 /\ IsMonthStr(parts[1]) THEN i + off
         ELSE ScanWindowSkipping(lines, i, off + 1)

RECURSIVE ScanWindow(_, _, _)
\* the inner loop over next_line_offset, for the marker at line i
ScanWindow(lines, i, off) ==
    IF off > LookAhead THEN -1
    ELSE IF i + off > Len(lines) THEN -1
    ELSE LET parts == lines[i + off].toks IN
         IF parts = <<>> THEN ScanWindow(lines, i, off + 1)
         ELSE IF Len(parts) >= 3
              THEN (IF IsMonthStr(parts[1]) THEN i + off ELSE -1)
              ELSE -1

RECURSIVE FindHeader(_, _)
\* the outer loop over the lines: date_header_line_idx, or -1
FindHeader(lines, i) ==
    IF i > Len(lines) THEN -1
    ELSE IF lines[i].marker /\ ScanWindow(lines, i, 1) # -1
         THEN ScanWindow(lines, i, 1)
         ELSE FindHeader(lines, i + 1)

\* int(x) of a float given in tenths: truncation toward zero
Trunc(tenths) ==
    IF tenths >= 0 THEN tenths \div 10 ELSE -((-tenths) \div 10)

\* int(float(kp_str)): the value, or the exception it raises
IntOfFloat(tok) ==
    CASE tok.t = "int" -> [exc |-> "", v |-> Trunc(tok.v * 10)]
      [] tok.t = "dec" -> [exc |-> "", v |-> Trunc(tok.v)]
      [] tok.t = "nan" -> [exc |-> "ValueError", v |-> 0]
      [] tok.t = "inf" -> [exc |-> "OverflowError", v |-> 0]
      [] OTHER -> [exc |-> "ValueError", v |-> 0]

\* re.match(r"\d{2}-\d{2}UT", line) on the stripped line
IsRow(line) == line.toks # <<>> /\ line.toks[1].t = "label"

\* dt_time(hour=h) raises ValueError unless this holds
ValidHour(h) == h \in 0..23

\* kp_index >= KP_THRESHOLD
MeetsThreshold(kp, thr) == kp >= thr

PeriodSameColumn(dates, i, h, kp, tz) ==
    LET utc_start_dt == DateTime(dates[1].y, dates[1].m, dates[1].d, h, 0)
        utc_end_dt == AddHours(utc_start_dt, 3)
    IN  [start |-> AsTimeZone(utc_start_dt, tz),
         end |-> AsTimeZone(utc_end_dt, tz), kp |-> kp]

\* the tuple appended for column i (lines 219-224)
Period(dates, i, h, kp, tz) ==
    LET utc_start_dt == DateTime(dates[i].y, dates[i].m, dates[i].d, h, 0)
        utc_end_dt == AddHours(utc_start_dt, 3)
    IN  [start |-> AsTimeZone(utc_start_dt, tz),
         end |-> AsTimeZone(utc_end_dt, tz), kp |-> kp]

RECURSIVE CellLoop(_, _, _, _, _, _, _)
\* the loop over enumerate(kp_value_strs) for one row: the periods list after
\* it, and the exception that left it (if any)
CellLoop(kp_value_strs, i, dates, h, thr, tz, acc) ==
    IF i > Len(kp_value_strs) \/ i > Len(dates)
    THEN [periods |-> acc, exc |-> ""]
    ELSE LET r == IntOfFloat(kp_value_strs[i]) IN
         IF r.exc = "OverflowError" THEN [periods |-> acc, exc |-> r.exc]
         ELSE IF r.exc = "ValueError"
              THEN CellLoop(kp_value_strs, i + 1, dates, h, thr, tz, acc)
         ELSE IF MeetsThreshold(r.v, thr) /\ ValidHour(h)
              THEN CellLoop(kp_value_strs, i + 1, dates, h, thr, tz,
                            Append(acc, Period(dates, i, h, r.v, tz)))
              ELSE CellLoop(kp_value_strs, i + 1, dates, h, thr, tz, acc)

RECURSIVE InsertByStart(_, _)
InsertByStart(sorted, p) ==
    IF sorted = <<>> THEN <<p>>
    ELSE IF AbsHours(sorted[Len(sorted)].start) <= AbsHours(p.start)
         THEN Append(sorted, p)
         ELSE Append(InsertByStart(SubSeq(sorted, 1, Len(sorted) - 1), p),
                     sorted[Len(sorted)])

RECURSIVE SortByStart(_)
\* list.sort(key=lambda x: x[0]): stable, ascending by start instant
SortByStart(ps) ==
    IF ps = <<>> THEN <<>>
    ELSE InsertByStart(SortByStart(SubSeq(ps, 1, Len(ps) - 1)), ps[Len(ps)])

RECURSIVE MaxKp(_)
\* max(p[2] for p in high_kp_periods) if high_kp_periods else 0
MaxKp(ps) ==
    IF ps = <<>> THEN 0
    ELSE IF Len(ps) = 1 THEN ps[1].kp
    ELSE LET r == MaxKp(Tail(ps)) IN IF ps[1].kp >= r THEN ps[1].kp ELSE r

--------------------------------------------------------------------------
(* Inputs: environment settings, clock readings, bulletin texts *)

\* A setting is "unset", "empty", "bad" (text that is not a number) or a value.
\* The recipient string "," is text that holds no address.
GoodEnv ==
    [MAGNETIC_LATITUDE |-> "64.8", MAGNETIC_LONGITUDE |-> "-147.7",
     KP_THRESHOLD |-> "unset", EMAIL_SENDER |-> "a@x", EMAIL_PASSWORD |-> "pw",
     EMAIL_RECIPIENT |-> "b@x,c@x", SMTP_SERVER |-> "smtp.x", SMTP_PORT |-> "587"]

NumericSettings == {"MAGNETIC_LATITUDE", "MAGNETIC_LONGITUDE", "KP_THRESHOLD", "SMTP_PORT"}
TextSettings == {"EMAIL_SENDER", "EMAIL_PASSWORD", "EMAIL_RECIPIENT", "SMTP_SERVER"}

Envs ==
    {GoodEnv, [GoodEnv EXCEPT !.KP_THRESHOLD = "4"]}
    \cup {[GoodEnv EXCEPT ![k] = v] : k \in NumericSettings \ {"KP_THRESHOLD"},
                                      v \in {"unset", "empty", "bad"}}
    \cup {[GoodEnv EXCEPT !.KP_THRESHOLD = v] : v \in {"empty", "bad"}}
    \cup {[GoodEnv EXCEPT !.SMTP_PORT = "0"]}
    \cup {[GoodEnv EXCEPT ![k] = v] : k \in TextSettings, v \in {"unset", "empty"}}
    \cup {[GoodEnv EXCEPT !.EMAIL_RECIPIENT = ","]}

\* float(x) / int(x) of a setting does not raise
NumberParses(v) == v \notin {"unset", "empty", "bad"}
\* the setting is truthy
Truthy(v) == v \notin {"unset", "empty", "0"}

\* the try block of the settings load completes without ValueError / TypeError
SettingsLoad(e) ==
    /\ NumberParses(e.MAGNETIC_LATITUDE)
    /\ NumberParses(e.MAGNETIC_LONGITUDE)
    /\ (e.KP_THRESHOLD = "unset" \/ NumberParses(e.KP_THRESHOLD))
    /\ NumberParses(e.SMTP_PORT)
    /\ \A k \in TextSettings \cup {"SMTP_PORT"} : Truthy(e[k])

\* [email.strip() for email in RECIPIENT_STRING.split(',') if email.strip()]
bcc_recipients_list(v) ==
    CASE v = "b@x,c@x" -> <<"b@x", "c@x">>
      [] v = "," -> <<>>
      [] OTHER -> <<>>

ThresholdOf(e) ==
    CASE e.KP_THRESHOLD = "unset" -> 5
      [] e.KP_THRESHOLD = "4" -> 4
      [] e.KP_THRESHOLD = "5" -> 5

Clock(y, m) == [y |-> y, m |-> m]
Clocks == {Clock(2024, 12), Clock(2025, 1)}
ClockEnd == Clock(2025, 1)
NextClock(c) == IF c.m = 12 THEN Clock(c.y + 1, 1) ELSE Clock(c.y, c.m + 1)

RECURSIVE SeqsUpTo(_, _)
\* all sequences over S of length at most n
SeqsUpTo(S, n) ==
    IF n = 0 THEN {<<>>}
    ELSE LET shorter == SeqsUpTo(S, n - 1)
         IN  shorter \cup {Append(q, x) : q \in shorter, x \in S}

RECURSIVE Flatten(_)
Flatten(ss) == IF ss = <<>> THEN <<>> ELSE ss[1] \o Flatten(Tail(ss))

MaxTail == 1
MaxExcess == 1
MaxGap == 3
MaxIssued == 2

IssuedDec == IssuedLine("ymd", 2024, 12)
IssuedJan == IssuedLine("mdy", 2025, 1)
IssuedBad == IssuedLine("bad", 0, 0)
ProseLine == TokLine(<<Word, Word, Word>>)
ShortLine == TokLine(<<Mon(12), Int_(31)>>)
HeaderLine == TokLine(<<Mon(12), Int_(31), Mon(1), Int_(1), Mon(1), Int_(2)>>)
Row(hh, vals) == TokLine(<<Label(hh)>> \o vals)
SampleRow == Row(21, <<Int_(7), Int_(4), Int_(5)>>)

Hours == {0, 21, 23, 24}

RichRows ==
    {Row(0, vals) : vals \in [1..3 -> {Int_(3), Int_(4), Int_(7), Dec(47), Inf, Word}]}
    \cup {Row(0, vals) : vals \in [1..3 -> {Int_(5), Int_(7), NaN}]}
    \cup {Row(hh, vals) : hh \in Hours, vals \in [1..3 -> {Int_(4), Int_(7), Inf}]}
    \cup {Row(0, vals) : vals \in [1..2 -> {Int_(7), Word}]}
    \cup {Row(0, vals) : vals \in [1..4 -> {Int_(7), Word}]}

TailPool == {Row(3, <<Int_(5), Int_(4), Int_(7)>>), ProseLine}

\* bulletins that vary the rows under a fixed issuance line and date header
RowTexts ==
    {<<IssuedDec, MarkerLine, HeaderLine>> \o <<r>> \o tail :
        r \in RichRows, tail \in SeqsUpTo(TailPool, MaxTail)}

Chunks == {<<Mon(12), Int_(31)>>, <<Mon(1), Int_(1)>>, <<Mon(2), Int_(30)>>,
           <<Mon(12)>>, <<Word>>}
ExcessToks == {Word, Mon(1), Int_(2)}

\* bulletins that vary the tokens of the date header: up to three (month, day)
\* chunks, then up to MaxExcess further tokens
HeaderTexts ==
    {pre \o <<MarkerLine, TokLine(Flatten(cs) \o more), SampleRow>> :
        pre \in {<<>>, <<IssuedDec>>},
        cs \in SeqsUpTo(Chunks, 3), more \in SeqsUpTo(ExcessToks, MaxExcess)}

\* bulletins that vary the ":Issued:" lines
IssuedTexts ==
    {pre \o <<MarkerLine, HeaderLine, SampleRow>> :
        pre \in SeqsUpTo({IssuedDec, IssuedJan, IssuedBad}, MaxIssued)}

GapPool == {BlankLine, ProseLine, ShortLine, MarkerLine}

\* bulletins that vary what stands between the table marker and the header
DiscoveryTexts ==
    {pre \o gap \o <<HeaderLine, SampleRow>> :
        pre \in {<<>>, <<MarkerLine>>}, gap \in SeqsUpTo(GapPool, MaxGap)}
    \cup {<<>>, <<MarkerLine>>, <<MarkerLine, BlankLine>>}

Bulletins == RowTexts \cup HeaderTexts \cup IssuedTexts \cup DiscoveryTexts

--------------------------------------------------------------------------
(* The run of the script *)

NoText == [ok |-> FALSE, lines |-> <<>>]
\* no earlier call of parse_forecast has returned
NotParsed == [done |-> FALSE, periods |-> <<>>]
Text(t) == [ok |-> TRUE, lines |-> t]
lines == forecast_text.lines

Init ==
    /\ pc = "settings"
    /\ env \in Envs
    /\ now \in Clocks
    /\ KP_THRESHOLD = -1
    /\ LOCAL_TZ = "None"
    /\ forecast_text = NoText
    /\ current_year = 0
    /\ issued_year_found = FALSE
    /\ date_header_line_idx = -1
    /\ forecast_dates_raw = <<>>
    /\ parsed_dates = <<>>
    /\ idx = 0
    /\ line_num = 0
    /\ high_kp_periods = <<>>
    /\ msg = NoText
    /\ smtp = "none"
    /\ calls = <<>>
    /\ log = <<>>
    /\ first_parse = NotParsed

parseVars == <<current_year, issued_year_found, date_header_line_idx,
               forecast_dates_raw, parsed_dates, idx, line_num, high_kp_periods>>
mailVars == <<msg, smtp>>
cfgVars == <<env, KP_THRESHOLD, LOCAL_TZ>>

\* The system clock advances between two readings of datetime.now(UTC_TZ).
Tick ==
    /\ pc \in {"issuance", "dates"}
    /\ now # ClockEnd
    /\ now' = NextClock(now)
    /\ UNCHANGED <<first_parse, pc, cfgVars, forecast_text, parseVars, mailVars,
                   calls, log>>

\* module level: the settings load
LoadSettings ==
    /\ pc = "settings"
    /\ IF SettingsLoad(env)
       THEN /\ KP_THRESHOLD' = ThresholdOf(env)
            /\ pc' = "timezone"
            /\ log' = log
       ELSE /\ KP_THRESHOLD' = KP_THRESHOLD
            /\ pc' = "exited"
            /\ log' = Append(log, "critical:settings")
    /\ UNCHANGED <<first_parse, env, LOCAL_TZ, now, forecast_text, parseVars, mailVars,
                   calls>>

\* module level: the local time zone, UTC when none is found
DetermineTimezone ==
    /\ pc = "timezone"
    /\ \E found \in TimeZones \cup {"None"} :
          LOCAL_TZ' = IF found = "None" THEN "UTC" ELSE found
    /\ pc' = "main"
    /\ UNCHANGED <<first_parse, env, KP_THRESHOLD, now, forecast_text, parseVars,
                   mailVars, calls, log>>

\* get_aurora_forecast returns the response text
FetchOk ==
    /\ pc = "main"
    /\ \E t \in Bulletins : forecast_text' = Text(t)
    /\ calls' = Append(calls, "get_aurora_forecast")
    /\ pc' = "fetched"
    /\ UNCHANGED <<first_parse, cfgVars, now, parseVars, mailVars, log>>

\* get_aurora_forecast catches a RequestException and returns None
FetchFail ==
    /\ pc = "main"
    /\ forecast_text' = NoText
    /\ calls' = Append(calls, "get_aurora_forecast")
    /\ log' = Append(log, "error:fetch")
    /\ pc' = "fetched"
    /\ UNCHANGED <<first_parse, cfgVars, now, parseVars, mailVars>>

MainBranchAlways ==
    /\ pc = "fetched"
    /\ calls' = Append(calls, "parse_forecast")
    /\ pc' = "issuance"
    /\ UNCHANGED <<first_parse, cfgVars, now, forecast_text, parseVars, mailVars, log>>

\* __main__: "if forecast_text:" and, when it holds, the entry of parse_forecast
MainBranch ==
    /\ pc = "fetched"
    /\ IF forecast_text.ok /\ forecast_text.lines # <<>>
       THEN /\ calls' = Append(calls, "parse_forecast")
            /\ pc' = "issuance"
            /\ log' = log
       ELSE /\ calls' = calls
            /\ pc' = "done"
            /\ log' = Append(log, "warning:no_data")
    /\ UNCHANGED <<first_parse, cfgVars, now, forecast_text, parseVars, mailVars>>

RECURSIVE Repeat(_, _)
Repeat(x, n) == IF n = 0 THEN <<>> ELSE <<x>> \o Repeat(x, n - 1)

\* parse_forecast: "if not forecast_text: return", then the scan for the
\* ":Issued:" line
IssuanceScan ==
    /\ pc = "issuance"
    /\ IF ~forecast_text.ok \/ lines = <<>>
       THEN /\ pc' = "send"
            /\ UNCHANGED <<current_year, issued_year_found, log>>
       ELSE /\ pc' = "header"
            /\ LET i == FirstIssued(lines, 1) IN
                 /\ current_year' = IF i # 0 THEN lines[i].y ELSE now.y
                 /\ issued_year_found' = (i # 0)
                 /\ log' = log \o Repeat("warning:issued_line",
                                         Cardinality(BadIssuedBefore(lines, i)))
                               \o (IF i = 0 THEN <<"warning:issued_missing">> ELSE <<>>)
    /\ UNCHANGED <<first_parse, cfgVars, now, forecast_text, date_header_line_idx,
                   forecast_dates_raw, parsed_dates, idx, line_num,
                   high_kp_periods, mailVars, calls>>

\* parse_forecast: the search for the date header line
HeaderDiscovery ==
    /\ pc = "header"
    /\ LET r == FindHeader(lines, 1) IN
         /\ date_header_line_idx' = r
         /\ forecast_dates_raw' = IF r # -1 THEN lines[r].toks ELSE <<>>
         /\ IF r = -1
            THEN /\ log' = Append(log, "error:header")
                 /\ pc' = "send"
                 /\ idx' = idx
            ELSE /\ log' = log
                 /\ pc' = "dates"
                 /\ idx' = 1
    /\ UNCHANGED <<first_parse, cfgVars, now, forecast_text, current_year, issued_year_found,
                   parsed_dates, line_num, high_kp_periods, mailVars, calls>>

\* lines 189-191: the year of one forecast date
YearForForecast(year, now_month, month) ==
    IF now_month = 12 /\ month = 1 THEN year + 1 ELSE year

DatesLoopRunsUnbounded == idx <= Len(forecast_dates_raw)
\* line 179: the condition of the while loop
DatesLoopRuns == idx <= Len(forecast_dates_raw) /\ Len(parsed_dates) < 3

\* parse_forecast: one iteration of the loop over the header's tokens
DecodeDate ==
    /\ pc = "dates"
    /\ DatesLoopRuns
    /\ LET month_str == forecast_dates_raw[idx]
           hasDay == idx + 1 <= Len(forecast_dates_raw)
                     /\ IsDigit(forecast_dates_raw[idx + 1])
           current_month_int == month_str_to_int(month_str)
           day_int == forecast_dates_raw[idx + 1].v
           year_for_forecast == YearForForecast(current_year, now.m, current_month_int)
       IN  IF IsMonthStr(month_str) /\ hasDay
              /\ ValidDate(year_for_forecast, current_month_int, day_int)
           THEN /\ parsed_dates' = Append(parsed_dates,
                        [y |-> year_for_forecast, m |-> current_month_int, d |-> day_int])
                /\ idx' = idx + 2
                /\ pc' = pc
                /\ log' = log
           ELSE \* ValueError, caught at line 196
                /\ parsed_dates' = parsed_dates
                /\ idx' = idx
                /\ pc' = "send"
                /\ log' = Append(log, "error:dates")
    /\ UNCHANGED <<first_parse, cfgVars, now, forecast_text, current_year, issued_year_found,
                   date_header_line_idx, forecast_dates_raw, line_num,
                   high_kp_periods, mailVars, calls>>

\* parse_forecast: the loop over the header's tokens has ended
DecodeDone ==
    /\ pc = "dates"
    /\ ~DatesLoopRuns
    /\ IF Len(parsed_dates) # 3
       THEN /\ log' = Append(log, "error:dates_count")
            /\ pc' = "send"
            /\ line_num' = line_num
       ELSE /\ log' = log
            /\ pc' = "rows"
            /\ line_num' = date_header_line_idx + 1
    /\ UNCHANGED <<first_parse, cfgVars, now, forecast_text, current_year, issued_year_found,
                   date_header_line_idx, forecast_dates_raw, parsed_dates, idx,
                   high_kp_periods, mailVars, calls>>

\* parse_forecast: one iteration of the loop over the lines after the header
ExtractRow ==
    /\ pc = "rows"
    /\ line_num <= Len(lines)
    /\ LET line == lines[line_num]
           kp_value_strs == Tail(line.toks)
           r == CellLoop(kp_value_strs, 1, parsed_dates, line.toks[1].v,
                         KP_THRESHOLD, LOCAL_TZ, high_kp_periods)
       IN  IF ~IsRow(line) \/ Len(kp_value_strs) < Len(parsed_dates)
           THEN /\ high_kp_periods' = high_kp_periods
                /\ line_num' = line_num + 1
                /\ pc' = pc
           ELSE IF r.exc # ""
           THEN \* OverflowError is not caught: it leaves parse_forecast and the script
                /\ high_kp_periods' = r.periods
                /\ line_num' = line_num
                /\ pc' = "crashed"
           ELSE /\ high_kp_periods' = r.periods
                /\ line_num' = line_num + 1
                /\ pc' = pc
    /\ UNCHANGED <<first_parse, cfgVars, now, forecast_text, current_year, issued_year_found,
                   date_header_line_idx, forecast_dates_raw, parsed_dates, idx,
                   mailVars, calls, log>>

\* parse_forecast: return high_kp_periods
RowsDone ==
    /\ pc = "rows"
    /\ line_num > Len(lines)
    /\ pc' = "send"
    /\ UNCHANGED <<first_parse, cfgVars, now, forecast_text, parseVars, mailVars, calls, log>>

SendEmailAlertUnguarded ==
    /\ pc = "send"
    /\ calls' = Append(calls, "send_email_alert")
    /\ high_kp_periods' = SortByStart(high_kp_periods)
    /\ msg' = [ok |-> TRUE,
               lines |-> <<MaxKp(high_kp_periods)>> \o SortByStart(high_kp_periods)]
    /\ pc' = "smtp"
    /\ UNCHANGED <<first_parse, cfgVars, now, forecast_text, current_year, issued_year_found,
                   date_header_line_idx, forecast_dates_raw, parsed_dates, idx,
                   line_num, smtp, log>>

\* send_email_alert up to the opening of the SMTP session
SendEmailAlert ==
    /\ pc = "send"
    /\ calls' = Append(calls, "send_email_alert")
    /\ IF high_kp_periods = <<>>
       THEN /\ log' = Append(log, "info:no_periods")
            /\ pc' = "done"
            /\ UNCHANGED <<high_kp_periods, msg>>
       ELSE /\ high_kp_periods' = SortByStart(high_kp_periods)
            /\ msg' = [ok |-> TRUE,
                       lines |-> <<MaxKp(high_kp_periods)>> \o SortByStart(high_kp_periods)]
            /\ pc' = "smtp"
            /\ log' = log
    /\ UNCHANGED <<first_parse, cfgVars, now, forecast_text, current_year, issued_year_found,
                   date_header_line_idx, forecast_dates_raw, parsed_dates, idx,
                   line_num, smtp>>

\* smtplib.SMTP(SMTP_SERVER, SMTP_PORT): the session opens, or the connection fails
SmtpConnect ==
    /\ pc = "smtp"
    /\ \/ /\ smtp' = "open"
          /\ pc' = "session"
          /\ log' = log
       \/ /\ smtp' = smtp
          /\ pc' = "done"
          /\ log' = Append(log, "error:email")
    /\ UNCHANGED <<first_parse, cfgVars, now, forecast_text, parseVars, msg, calls>>

\* starttls, login, sendmail inside the with block, which closes the session
SmtpSend ==
    /\ pc = "session"
    /\ smtp' = "closed"
    /\ \/ /\ calls' = Append(calls, "sendmail")
          /\ log' = Append(log, "info:sent")
       \/ /\ calls' = calls
          /\ log' = Append(log, "error:smtp")
    /\ pc' = "done"
    /\ UNCHANGED <<first_parse, cfgVars, now, forecast_text, parseVars, msg>>

Next ==
    \/ Tick
    \/ LoadSettings
    \/ DetermineTimezone
    \/ FetchOk
    \/ FetchFail
    \/ MainBranch
    \/ IssuanceScan
    \/ HeaderDiscovery
    \/ DecodeDate
    \/ DecodeDone
    \/ ExtractRow
    \/ RowsDone
    \/ SendEmailAlert
    \/ SmtpConnect
    \/ SmtpSend

Spec == Init /\ [][Next]_vars

\* parse_forecast(forecast_text, LOCAL_TZ) called once more on the text and
\* with the threshold and time zone of the call that has just returned: the
\* list that call returned is kept, the locals start afresh
ParseAgain ==
    /\ pc = "send"
    /\ ~first_parse.done
    /\ first_parse' = [done |-> TRUE, periods |-> high_kp_periods]
    /\ current_year' = 0
    /\ issued_year_found' = FALSE
    /\ date_header_line_idx' = -1
    /\ forecast_dates_raw' = <<>>
    /\ parsed_dates' = <<>>
    /\ idx' = 0
    /\ line_num' = 0
    /\ high_kp_periods' = <<>>
    /\ calls' = Append(calls, "parse_forecast")
    /\ pc' = "issuance"
    /\ UNCHANGED <<cfgVars, now, forecast_text, mailVars, log>>

NextTwice == Next \/ ParseAgain

\* a run in which parse_forecast may be called a second time on the same text
SpecTwice == Init /\ [][NextTwice]_vars

--------------------------------------------------------------------------
(* Vocabulary of the properties *)

Range(q) == {q[k] : k \in 1..Len(q)}

\* parse_forecast went on to row extraction
RowsReached == line_num > 0

\* the token is a finite number, so that it has an integer level
HasLevel(tok) == tok.t \in {"int", "dec"}

\* the integer part of a non-negative number given as digits or in tenths
LevelOf(tok) ==
    IF tok.t = "int" THEN tok.v
    ELSE CHOOSE n \in 0..tok.v : 10 * n <= tok.v /\ tok.v < 10 * (n + 1)

\* a recognised data row the parser can use: the hh-hhUT label with a start
\* hour of 0..23, and a value token for each of the three columns
UsableRow(line) ==
    IsRow(line) /\ Len(line.toks) >= 4 /\ line.toks[1].v \in 0..23

CellQualifies(ln, i) ==
    /\ UsableRow(lines[ln])
    /\ HasLevel(lines[ln].toks[i + 1])
    /\ LevelOf(lines[ln].toks[i + 1]) >= KP_THRESHOLD

\* UTC start instant of cell (ln, i): date D_i at the row's start hour
CellStart(ln, i) ==
    ToOrdinal(parsed_dates[i].y, parsed_dates[i].m, parsed_dates[i].d) * 24
        + lines[ln].toks[1].v

RECURSIVE ExpectedCells(_, _, _)
\* the qualifying cells of lines ln..last, row by row and column by column
ExpectedCells(ln, i, last) ==
    IF ln > last THEN <<>>
    ELSE IF i > 3 THEN ExpectedCells(ln + 1, 1, last)
    ELSE (IF CellQualifies(ln, i)
          THEN <<[start |-> CellStart(ln, i), end |-> CellStart(ln, i) + 3,
                  kp |-> LevelOf(lines[ln].toks[i + 1])]>>
          ELSE <<>>)
         \o ExpectedCells(ln, i + 1, last)

\* the records as absolute instants
Instants(ps) ==
    [k \in 1..Len(ps) |-> [start |-> AbsHours(ps[k].start),
                           end |-> AbsHours(ps[k].end), kp |-> ps[k].kp]]

StartLevels(cells) ==
    [k \in 1..Len(cells) |-> <<cells[k].start, cells[k].kp>>]

\* what parse_forecast hands to its caller: nothing when it raised
Returned == IF pc = "crashed" THEN <<>> ELSE high_kp_periods

\* the first ":Issued:" line whose timestamp parses
IssuedAt ==
    LET S == {i \in 1..Len(lines) : lines[i].issued \in {"ymd", "mdy"}}
    IN  IF S = {} THEN 0 ELSE CHOOSE i \in S : \A j \in S : i <= j

DateOrdinal(dte) == ToOrdinal(dte.y, dte.m, dte.d)

\* a valid date-header line: at least 3 tokens, the first a month abbreviation
IsHeaderCandidate(line) == Len(line.toks) >= 3 /\ IsMonthStr(line.toks[1])

\* no line in the 3 lines after any table marker is a valid date-header line
NoHeaderInWindow ==
    \A i \in 1..Len(lines) :
        lines[i].marker =>
            \A off \in 1..3 :
                i + off <= Len(lines) => ~IsHeaderCandidate(lines[i + off])

\* the j-th (month, day) pair of the header line
PairOk(j) ==
    /\ 2 * j <= Len(forecast_dates_raw)
    /\ IsMonthStr(forecast_dates_raw[2 * j - 1])
    /\ IsDigit(forecast_dates_raw[2 * j])

\* the j-th pair names a day that exists in every year
PairIsDate(j) ==
    /\ PairOk(j)
    /\ forecast_dates_raw[2 * j].v >= 1
    /\ forecast_dates_raw[2 * j].v <=
         (IF forecast_dates_raw[2 * j - 1].v = 2 THEN 28
          ELSE DaysInMonth(2001, forecast_dates_raw[2 * j - 1].v))

\* the day after (m, d), the year left aside
DayAfter(m, d) ==
    IF d < DaysInMonth(2001, m) THEN <<m, d + 1>> ELSE <<(m % 12) + 1, 1>>

\* the header line is three (month, day) pairs, each the day after the last
ConsecutiveDays ==
    /\ Len(forecast_dates_raw) = 6
    /\ \A j \in 1..3 : PairIsDate(j)
    /\ \A j \in 1..2 :
          <<forecast_dates_raw[2 * j + 1].v, forecast_dates_raw[2 * j + 2].v>>
              = DayAfter(forecast_dates_raw[2 * j - 1].v, forecast_dates_raw[2 * j].v)

\* the header was found and its decoding is over
DecodeEnded ==
    date_header_line_idx # -1
    /\ pc \in {"rows", "send", "smtp", "session", "done", "crashed"}

Pipeline == <<"get_aurora_forecast", "parse_forecast", "send_email_alert", "sendmail">>

\* the least element of a non-empty set of integers
Least(S) == CHOOSE x \in S : \A y \in S : x <= y

\* the lines that contain the table marker
Markers == {i \in 1..Len(lines) : lines[i].marker}

\* the up-to-3 lines following line i
Window(i) == {j \in (i + 1)..(i + 3) : j <= Len(lines)}

\* the first valid date-header line of the window of marker i, or -1
FirstQualifying(i) ==
    LET Q == {j \in Window(i) : IsHeaderCandidate(lines[j])}
    IN  IF Q = {} THEN -1 ELSE Least(Q)

\* the first non-blank line of the window of marker i when it is a valid
\* date-header line, or -1
FirstNonBlankIfQualifying(i) ==
    LET B == {j \in Window(i) : lines[j].toks # <<>>}
    IN  IF B # {} /\ IsHeaderCandidate(lines[Least(B)]) THEN Least(B) ELSE -1

\* the search for the date header is over
HeaderSearched ==
    forecast_text.ok /\ lines # <<>>
    /\ pc \notin {"main", "fetched", "issuance", "header"}

\* the options a run cannot do without: all but the threshold, which has a default
RequiredSettings == (NumericSettings \cup TextSettings) \ {"KP_THRESHOLD"}

\* a required option is missing, a numeric option is not a usable number, or
\* the recipient option names no address
InvalidConfig(e) ==
    \/ \E k \in RequiredSettings : e[k] \in {"unset", "empty"}
    \/ \E k \in NumericSettings : e[k] \in {"empty", "bad"}
    \/ e.SMTP_PORT = "0"
    \/ bcc_recipients_list(e.EMAIL_RECIPIENT) = <<>>

--------------------------------------------------------------------------
(* Properties *)

\* C1: when parse_forecast ends after row extraction, the records it hands back
\* are exactly those of the cells (usable row, column 0..2) whose token has an
\* integer level >= KP_THRESHOLD: one record per such cell, none for any other.
C1_EmittedIffAtLeastThreshold ==
    (RowsReached /\ pc \in {"send", "crashed"}) =>
        StartLevels(Instants(Returned))
            = StartLevels(ExpectedCells(date_header_line_idx + 1, 1, Len(lines)))

\* C2: in a bulletin whose issuance timestamp was parsed, the year of every
\* resolved forecast date is the issuance year, plus one exactly when the
\* bulletin was issued in December and the date's month is January, whatever
\* the clock read.
C2_YearFollowsIssuanceMonth ==
    (forecast_text.ok /\ IssuedAt # 0) =>
        \A j \in 1..Len(parsed_dates) :
            parsed_dates[j].y =
                lines[IssuedAt].y
                  + (IF lines[IssuedAt].m = 12 /\ parsed_dates[j].m = 1 THEN 1 ELSE 0)

\* C3: whenever parse_forecast is in row extraction under a header line that
\* lists three consecutive calendar days, exactly three dates have been
\* resolved and they are in non-decreasing chronological order.
C3_ThreeDatesInOrder ==
    (pc = "rows" /\ ConsecutiveDays) =>
        /\ Len(parsed_dates) = 3
        /\ DateOrdinal(parsed_dates[1]) <= DateOrdinal(parsed_dates[2])
        /\ DateOrdinal(parsed_dates[2]) <= DateOrdinal(parsed_dates[3])

\* C4: every record's end instant is its start instant plus exactly 3 hours
\* of absolute time, in every target time zone.
C4_EndIsStartPlus3h ==
    \A k \in 1..Len(high_kp_periods) :
        AbsHours(high_kp_periods[k].end) = AbsHours(high_kp_periods[k].start) + 3

\* C4 witness: a returned record that starts at 23:00 UTC and ends at 02:00 UTC
\* on the next UTC day, displayed in a zone whose offset changes in between.
C4_Witness ==
    /\ pc = "send"
    /\ LOCAL_TZ = "Shift"
    /\ \E k \in 1..Len(high_kp_periods) :
          LET s == AsTimeZone(high_kp_periods[k].start, "UTC")
              e == AsTimeZone(high_kp_periods[k].end, "UTC")
          IN  s.h = 23 /\ e.h = 2 /\ DateOrdinal(e) = DateOrdinal(s) + 1

\* C5: no row or value token aborts parse_forecast: it never raises, and when
\* it returns after row extraction it hands back the records of every valid
\* cell of every row.
C5_NoRowAbortsParse ==
    /\ pc # "crashed"
    /\ (RowsReached /\ pc = "send") =>
          Instants(high_kp_periods)
              = ExpectedCells(date_header_line_idx + 1, 1, Len(lines))

\* C6: for a bulletin with no valid date-header line in the 3 lines after any
\* table marker, parse_forecast has returned no records without raising and
\* has reported the failure, and the run builds no message, opens no mail
\* session and sends nothing.
C6_NoHeaderNoRecords ==
    (forecast_text.ok /\ lines # <<>> /\ NoHeaderInWindow
        /\ pc \notin {"main", "fetched", "issuance", "header"}) =>
        /\ pc \in {"send", "done"}
        /\ ~RowsReached
        /\ high_kp_periods = <<>>
        /\ "error:header" \in Range(log)
        /\ ~msg.ok
        /\ smtp = "none"
        /\ "sendmail" \notin Range(calls)

\* C6 witness: the run has ended for a bulletin whose marker is followed by
\* three blank lines and only then by a valid date-header line.
C6_Witness ==
    /\ pc = "done"
    /\ forecast_text.ok
    /\ NoHeaderInWindow
    /\ \E i \in 1..Len(lines) :
          /\ lines[i].marker
          /\ i + 4 <= Len(lines)
          /\ \A off \in 1..3 : lines[i + off].toks = <<>>
          /\ IsHeaderCandidate(lines[i + 4])

\* C7 as claimed: parsing is in or past row extraction only for a header line
\* of exactly three (month, day) pairs and no further token.
C7_ExcessTokensAbort ==
    RowsReached =>
        /\ Len(forecast_dates_raw) = 6
        /\ \A j \in 1..3 : PairOk(j)

\* C7 as amended: row extraction is reached only when the first six header
\* tokens gave exactly 3 dates, each from one month token and one digit token;
\* a missing or non-digit day token or an unknown month among the first three
\* pairs aborts the parse with no records and an error report; tokens after
\* the third pair are ignored, so three valid pairs always lead to row
\* extraction.
C7_ThreePairsDecideDecoding ==
    /\ RowsReached =>
          /\ Len(parsed_dates) = 3
          /\ idx = 7
          /\ \A j \in 1..3 :
                /\ PairOk(j)
                /\ parsed_dates[j].m = forecast_dates_raw[2 * j - 1].v
                /\ parsed_dates[j].d = forecast_dates_raw[2 * j].v
    /\ (DecodeEnded /\ \E j \in 1..3 : ~PairOk(j)) =>
          /\ ~RowsReached
          /\ high_kp_periods = <<>>
          /\ {"error:dates", "error:dates_count"} \cap Range(log) # {}
    /\ (DecodeEnded /\ \A j \in 1..3 : PairIsDate(j)) => RowsReached

\* C7 witness: row extraction under a header line with a token after the
\* third pair.
C7_Witness ==
    /\ pc = "rows"
    /\ Len(forecast_dates_raw) > 6

\* C8: each step over a line in row extraction appends exactly the records of
\* that row's qualifying cells, in column order, the record of column i
\* starting on date D_i at the row's start hour (UTC), ending 3 hours later
\* and carrying the level of token i.
C8_ColumnOfToken ==
    [][(pc = "rows" /\ pc' = "rows") =>
         /\ Len(high_kp_periods') >= Len(high_kp_periods)
         /\ SubSeq(high_kp_periods', 1, Len(high_kp_periods)) = high_kp_periods
         /\ Instants(SubSeq(high_kp_periods', Len(high_kp_periods) + 1,
                            Len(high_kp_periods')))
              = ExpectedCells(line_num, 1, line_num)]_vars

\* C8 witness: with threshold 5, the row "00-03UT 3 4 7" right after the
\* header has yielded exactly one record: level 7, from D2 00:00 UTC to
\* D2 03:00 UTC.
C8_Witness ==
    /\ pc = "rows"
    /\ KP_THRESHOLD = 5
    /\ line_num = date_header_line_idx + 2
    /\ lines[line_num - 1] = Row(0, <<Int_(3), Int_(4), Int_(7)>>)
    /\ Len(high_kp_periods) = 1
    /\ high_kp_periods[1].kp = 7
    /\ AbsHours(high_kp_periods[1].start) = DateOrdinal(parsed_dates[3]) * 24
    /\ AbsHours(high_kp_periods[1].end) = DateOrdinal(parsed_dates[3]) * 24 + 3

\* C9: a message, a mail session or a send exists only in a run with at least
\* one qualifying period; send_email_alert called with an empty list ends the
\* run with no message built and no session opened.
C9_NoMailWithoutPeriods ==
    /\ (msg.ok \/ smtp # "none" \/ pc \in {"smtp", "session"}
            \/ "sendmail" \in Range(calls)) => high_kp_periods # <<>>
    /\ ("send_email_alert" \in Range(calls) /\ high_kp_periods = <<>>) =>
          pc = "done" /\ ~msg.ok /\ smtp = "none"

\* C9 witness: send_email_alert has run on the empty list that row extraction
\* returned because no cell met the threshold.
C9_Witness ==
    /\ pc = "done"
    /\ RowsReached
    /\ high_kp_periods = <<>>
    /\ "send_email_alert" \in Range(calls)

\* C10: the calls of a run are a prefix of fetch, parse, alert, send in that
\* order; parse_forecast is called only on a fetched text; after a failed
\* fetch neither parse_forecast nor send_email_alert is ever called and the
\* run ends on the no-data report; send_email_alert is called only after
\* parse_forecast has returned.
C10_FetchGatesPipeline ==
    /\ Len(calls) <= Len(Pipeline)
    /\ calls = SubSeq(Pipeline, 1, Len(calls))
    /\ "parse_forecast" \in Range(calls) => forecast_text.ok
    /\ "send_email_alert" \in Range(calls) => pc \in {"smtp", "session", "done"}
    /\ "error:fetch" \in Range(log) =>
          /\ calls = <<"get_aurora_forecast">>
          /\ pc \in {"fetched", "done"}
          /\ pc = "done" => log[Len(log)] = "warning:no_data"

\* C10 witness: a run that ended after a failed fetch.
C10_Witness ==
    /\ pc = "done"
    /\ "error:fetch" \in Range(log)

\* C11: a second parse of the same bulletin text, with the same threshold and
\* target time zone, returns the same records in the same order as the first,
\* whatever the clock read during either parse.
C11_SameTextSameRecords ==
    (first_parse.done /\ pc = "send") => high_kp_periods = first_parse.periods
\* C12: in a run whose configuration has a required option missing or
\* malformed, the bulletin is never fetched or parsed, send_email_alert is
\* never called and no mail activity takes place.
C12_InvalidConfigAborts ==
    InvalidConfig(env) =>
        /\ calls = <<>>
        /\ ~msg.ok
        /\ smtp = "none"
\* C13 as claimed: the header line is the first valid date-header line among
\* the up-to-3 lines after the first marker that has one in its window,
\* whatever blank or other lines stand before it in the window; none is found
\* only when no marker has one.
C13_FirstQualifyingInWindow ==
    HeaderSearched =>
        LET M == {i \in Markers : FirstQualifying(i) # -1}
        IN  date_header_line_idx =
                (IF M = {} THEN -1 ELSE FirstQualifying(Least(M)))

\* C13 as amended: for each marker in turn, blank lines among the up-to-3
\* lines after it are passed over and the first non-blank line there decides:
\* it is the header line when it has at least 3 tokens of which the first is
\* a month abbreviation, and otherwise the search moves on to the next
\* marker; a line more than 3 lines after a marker is never chosen for it.
C13_FirstNonBlankDecides ==
    HeaderSearched =>
        LET M == {i \in Markers : FirstNonBlankIfQualifying(i) # -1}
        IN  /\ date_header_line_idx =
                  (IF M = {} THEN -1 ELSE FirstNonBlankIfQualifying(Least(M)))
            /\ date_header_line_idx # -1 =>
                  \E i \in Markers :
                      /\ date_header_line_idx \in Window(i)
                      /\ \A j \in (i + 1)..(date_header_line_idx - 1) :
                            lines[j].toks = <<>>

\* C13 witness: the search has ended without a header for a bulletin whose
\* only marker is followed by a non-blank line that is no date header and then,
\* still inside the window, by a valid date-header line.
C13_Witness ==
    /\ HeaderSearched
    /\ date_header_line_idx = -1
    /\ \E i \in Markers :
          /\ Markers = {i}
          /\ i + 2 <= Len(lines)
          /\ lines[i + 1].toks # <<>>
          /\ ~IsHeaderCandidate(lines[i + 1])
          /\ IsHeaderCandidate(lines[i + 2])

==========================================================================
